---- MODULE Spec2Model ----
(***************************************************************************)
(* Model of the validation selectors of the viewer                         *)
(* (src/unnamed/part_000): the sample grid, the per-drone sampled          *)
(* positions and velocities, the derived altitude and velocity sequences,  *)
(* the per-frame nearest-neighbour distances, the resolution of the        *)
(* validation settings, and the memoization createSelector puts around     *)
(* each of them.                                                           *)
(*                                                                         *)
(* Numbers.  A time is an integer number of ticks; one second is           *)
(* TicksPerSecond ticks, so a duration of d ticks is the rational          *)
(* d / TicksPerSecond seconds and the arithmetic of the selectors is exact.*)
(* A Euclidean norm is kept as the non-negative integer under the root:    *)
(* [type |-> "number", squared |-> n] is the real number sqrt(n).          *)
(*                                                                         *)
(* JavaScript values.  undefined, null and an empty array slot are the     *)
(* records Undefined, Null and Hole; an object is a function from its own  *)
(* keys to values.                                                         *)
(***************************************************************************)
EXTENDS Integers, Sequences, FiniteSets, TLC

VARIABLES
  duration,                \* getShowDuration(state), in ticks
  players,                 \* getTrajectoryPlayers(state): an array (ref, items)
  validation,              \* get(state, 'show.data.settings.validation')
  environmentType,         \* getShowEnvironmentType(state)
  pc,                      \* position of the run / of the last operation
  samples,                 \* result of getSampledTimeInstants
  positionsByDrones,       \* result of getSampledPositionsForDrones
  velocitiesByDrones,      \* result of getSampledVelocitiesForDrones
  altitudes,               \* result of getSampledAltitudesForDrones
  horizontalVelocities,    \* result of getSampledHorizontalVelocitiesForDrones
  verticalVelocities,      \* result of getSampledVerticalVelocitiesForDrones
  frameIndex,              \* loop variables of
  droneIndex,              \*   getNearestNeighborDistancesForFrames
  positionsInCurrentFrame,
  result,
  accesses,                \* history: array slot -> frame indices that touched it
  memo,                    \* createSelector: selector -> last arguments and result
  calls,                   \* history: the selector calls of the last step
  settings                 \* value returned by getValidationSettings

storeVars == <<duration, players, validation, environmentType>>
runVars == <<samples, positionsByDrones, velocitiesByDrones, altitudes,
             horizontalVelocities, verticalVelocities>>
loopVars == <<frameIndex, droneIndex, positionsInCurrentFrame, result, accesses>>
memoVars == <<memo, calls>>
vars == <<duration, players, validation, environmentType, pc, samples,
          positionsByDrones, velocitiesByDrones, altitudes,
          horizontalVelocities, verticalVelocities, frameIndex, droneIndex,
          positionsInCurrentFrame, result, accesses, memo, calls, settings>>

----------------------------------------------------------------------------
(* Bounds of the model *)

MaxDuration == 3
MaxNegDuration == 2
MaxDrones == 3
Resolution == 2

(* Program constants *)

SAMPLES_PER_SECOND == 4

TicksPerSecond == SAMPLES_PER_SECOND * Resolution

----------------------------------------------------------------------------
(* JavaScript values *)

Undefined == [type |-> "undefined"]
Null == [type |-> "null"]
Hole == [type |-> "empty"]
Num(n) == [type |-> "number", value |-> n]

\* Math.ceil(num / den) for den > 0; Math.ceil of a value in (-1, 0] is (-)0.
MathCeil(num, den) == -((-num) \div den)

\* Math.hypot(dx, dy, dz): the number sqrt(dx^2 + dy^2 + dz^2).
MathHypot(dx, dy, dz) ==
  [type |-> "number", squared |-> dx * dx + dy * dy + dz * dz]

\* lodash range(end): 0, 1, ..., end-1 for end >= 0 and 0, -1, ..., end+1
\* for end < 0 (a step of -1 is used for a negative end).
LodashRange(end) ==
  IF end >= 0 THEN [i \in 1..end |-> i - 1] ELSE [i \in 1..(-end) |-> -(i - 1)]

\* new Array(n)
NewArray(n) == [i \in 1..n |-> Hole]

----------------------------------------------------------------------------
(* Trajectory players: a drone flying from p0 with constant velocity v     *)
(* (length units per tick).                                                *)

Coords == {0, 1}
StartPoints == {p \in [x : Coords, y : Coords, z : Coords] : p.x + p.y + p.z <= 1}
Velocities == {[x |-> 0, y |-> 0, z |-> 0], [x |-> 1, y |-> 1, z |-> -1]}
PlayerSet == [p0 : StartPoints, v : Velocities]

\* player.getPositionAt(time, result): fills result.x, .y, .z and returns it.
getPositionAt(player, time, res) ==
  [x |-> player.p0.x + player.v.x * time,
   y |-> player.p0.y + player.v.y * time,
   z |-> player.p0.z + player.v.z * time,
   t |-> res.t]

\* player.getVelocityAt(time, result)
getVelocityAt(player, time, res) ==
  [x |-> player.v.x, y |-> player.v.y, z |-> player.v.z, t |-> res.t]

----------------------------------------------------------------------------
(* Result functions of the sampling selectors *)

getSampledTimeInstants_dropTail(d) ==
  LET numberSamples == MathCeil(d * SAMPLES_PER_SECOND, TicksPerSecond)
  IN  [i \in 1..Len(LodashRange(numberSamples)) |->
         (LodashRange(numberSamples)[i] * TicksPerSecond) \div SAMPLES_PER_SECOND]

getSampledTimeInstants(d) ==
  LET numberSamples == MathCeil(d * SAMPLES_PER_SECOND, TicksPerSecond)
      range == LodashRange(numberSamples)
      res == [i \in 1..Len(range) |->
                (range[i] * TicksPerSecond) \div SAMPLES_PER_SECOND]
  IN  IF Len(res) > 0 /\ res[Len(res)] < d THEN Append(res, d) ELSE res

getSampledPositionsForDrones_skipFirst(ps, times) ==
  [d \in 1..Len(ps) |->
     [i \in 1..Len(times) |->
        getPositionAt(ps[d], times[IF i > 1 THEN i - 1 ELSE i],
                      [t |-> times[i]])]]

getSampledPositionsForDrones(ps, times) ==
  [d \in 1..Len(ps) |->
     [i \in 1..Len(times) |-> getPositionAt(ps[d], times[i], [t |-> times[i]])]]

getSampledVelocitiesForDrones(ps, times) ==
  [d \in 1..Len(ps) |->
     [i \in 1..Len(times) |-> getVelocityAt(ps[d], times[i], [t |-> times[i]])]]

getSampledAltitudesForDrones(positions) ==
  [d \in 1..Len(positions) |->
     [i \in 1..Len(positions[d]) |-> positions[d][i].z]]

getSampledHorizontalVelocitiesForDrones(velocities) ==
  [d \in 1..Len(velocities) |->
     [i \in 1..Len(velocities[d]) |->
        MathHypot(velocities[d][i].x, velocities[d][i].y, 0)]]

getSampledVerticalVelocitiesForDrones(velocities) ==
  [d \in 1..Len(velocities) |->
     [i \in 1..Len(velocities[d]) |-> velocities[d][i].z]]

----------------------------------------------------------------------------
(* Closest pair of a frame: the pair of points at minimal Euclidean         *)
(* distance found by the pairwise scan, the first such pair in index order; *)
(* no pair for fewer than two points.                                       *)

SquaredDistance(p, q) ==
  (p.x - q.x) * (p.x - q.x) + (p.y - q.y) * (p.y - q.y)
    + (p.z - q.z) * (p.z - q.z)

IndexPairs(n) == {ij \in (1..n) \X (1..n) : ij[1] < ij[2]}

PairBefore(ij, kl) == ij[1] < kl[1] \/ (ij[1] = kl[1] /\ ij[2] <= kl[2])

getClosestPair(points) ==
  IF Len(points) < 2 THEN Undefined
  ELSE LET D(ij) == SquaredDistance(points[ij[1]], points[ij[2]])
           best == CHOOSE ij \in IndexPairs(Len(points)) :
                     \A kl \in IndexPairs(Len(points)) :
                       D(ij) < D(kl) \/ (D(ij) = D(kl) /\ PairBefore(ij, kl))
       IN  [type |-> "array", items |-> <<points[best[1]], points[best[2]]>>]

\* the condition of  closestPair ? ... : null
Truthy(v) == v.type \notin {"undefined", "null"}

distanceOfClosestPair_planar(closestPair) ==
  IF Truthy(closestPair)
  THEN MathHypot(closestPair.items[1].x - closestPair.items[2].x,
                 closestPair.items[1].y - closestPair.items[2].y,
                 0)
  ELSE Null

distanceOfClosestPair_undefinedForNone(closestPair) ==
  IF Truthy(closestPair)
  THEN MathHypot(closestPair.items[1].x - closestPair.items[2].x,
                 closestPair.items[1].y - closestPair.items[2].y,
                 closestPair.items[1].z - closestPair.items[2].z)
  ELSE closestPair

\* closestPair ? Math.hypot(dx, dy, dz) : null
distanceOfClosestPair(closestPair) ==
  IF Truthy(closestPair)
  THEN MathHypot(closestPair.items[1].x - closestPair.items[2].x,
                 closestPair.items[1].y - closestPair.items[2].y,
                 closestPair.items[1].z - closestPair.items[2].z)
  ELSE Null

\* The whole result function, frame by frame (the loop is stepped through
\* by the actions BeginFrames .. FinishFrames below).
getNearestNeighborDistancesForFrames(positions, times) ==
  [f \in 1..Len(times) |->
     distanceOfClosestPair(
       getClosestPair([d \in 1..Len(positions) |-> positions[d][f]]))]

----------------------------------------------------------------------------
(* One analysis run: the inputs are drawn in InitRun and the selectors'    *)
(* result functions are applied in dependency order.                       *)

Durations == (-MaxNegDuration)..MaxDuration
TrajectorySets == UNION {[1..n -> PlayerSet] : n \in 0..MaxDrones}

NoMemo == [s \in {} |-> Undefined]

InitRun ==
  /\ duration \in Durations
  /\ players \in [type : {"array"}, ref : {0}, items : TrajectorySets]
  /\ validation = Undefined
  /\ environmentType = "outdoor"
  /\ pc = "start"
  /\ samples = <<>>
  /\ positionsByDrones = <<>>
  /\ velocitiesByDrones = <<>>
  /\ altitudes = <<>>
  /\ horizontalVelocities = <<>>
  /\ verticalVelocities = <<>>
  /\ frameIndex = 0
  /\ droneIndex = 0
  /\ positionsInCurrentFrame = <<>>
  /\ result = <<>>
  /\ accesses = {}
  /\ memo = NoMemo
  /\ calls = NoMemo
  /\ settings = Undefined

StepSampledTimeInstants ==
  /\ pc = "start"
  /\ samples' = getSampledTimeInstants(duration)
  /\ pc' = "times"
  /\ UNCHANGED <<storeVars, positionsByDrones, velocitiesByDrones, altitudes,
                 horizontalVelocities, verticalVelocities, loopVars, memoVars,
                 settings>>

StepSampledPositionsForDrones ==
  /\ pc = "times"
  /\ positionsByDrones' = getSampledPositionsForDrones(players.items, samples)
  /\ pc' = "positions"
  /\ UNCHANGED <<storeVars, samples, velocitiesByDrones, altitudes,
                 horizontalVelocities, verticalVelocities, loopVars, memoVars,
                 settings>>

StepSampledVelocitiesForDrones ==
  /\ pc = "positions"
  /\ velocitiesByDrones' = getSampledVelocitiesForDrones(players.items, samples)
  /\ pc' = "velocities"
  /\ UNCHANGED <<storeVars, samples, positionsByDrones, altitudes,
                 horizontalVelocities, verticalVelocities, loopVars, memoVars,
                 settings>>

StepDerivedSequences ==
  /\ pc = "velocities"
  /\ altitudes' = getSampledAltitudesForDrones(positionsByDrones)
  /\ horizontalVelocities' =
       getSampledHorizontalVelocitiesForDrones(velocitiesByDrones)
  /\ verticalVelocities' =
       getSampledVerticalVelocitiesForDrones(velocitiesByDrones)
  /\ pc' = "derived"
  /\ UNCHANGED <<storeVars, samples, positionsByDrones, velocitiesByDrones,
                 loopVars, memoVars, settings>>

\* lines 185-188: the result array and the frame buffer are allocated once
BeginFrames ==
  /\ pc = "derived"
  /\ result' = NewArray(Len(samples))
  /\ positionsInCurrentFrame' = NewArray(Len(positionsByDrones))
  /\ frameIndex' = 0
  /\ droneIndex' = 0
  /\ pc' = "frames"
  /\ UNCHANGED <<storeVars, runVars, accesses, memoVars, settings>>

\* lines 191-194: one iteration of the inner loop
CopyPosition ==
  /\ pc = "frames"
  /\ frameIndex < Len(samples)
  /\ droneIndex < Len(positionsByDrones)
  /\ positionsInCurrentFrame' =
       [positionsInCurrentFrame EXCEPT
          ![droneIndex + 1] = positionsByDrones[droneIndex + 1][frameIndex + 1]]
  /\ accesses' = accesses \cup
       {[object |-> "positionsInCurrentFrame", slot |-> droneIndex,
         frame |-> frameIndex, mode |-> "write"]}
  /\ droneIndex' = droneIndex + 1
  /\ UNCHANGED <<storeVars, runVars, pc, frameIndex, result, memoVars, settings>>

\* lines 196-203 and the increment of the outer loop
ClosestPairOfFrame ==
  /\ pc = "frames"
  /\ frameIndex < Len(samples)
  /\ droneIndex >= Len(positionsByDrones)
  /\ result' = [result EXCEPT
       ![frameIndex + 1] =
          distanceOfClosestPair(getClosestPair(positionsInCurrentFrame))]
  /\ accesses' = accesses
       \cup {[object |-> "positionsInCurrentFrame", slot |-> d - 1,
              frame |-> frameIndex, mode |-> "read"] :
               d \in 1..Len(positionsInCurrentFrame)}
       \cup {[object |-> "result", slot |-> frameIndex,
              frame |-> frameIndex, mode |-> "write"]}
  /\ frameIndex' = frameIndex + 1
  /\ droneIndex' = 0
  /\ UNCHANGED <<storeVars, runVars, pc, positionsInCurrentFrame, memoVars,
                 settings>>

\* line 206
FinishFrames ==
  /\ pc = "frames"
  /\ frameIndex >= Len(samples)
  /\ pc' = "done"
  /\ UNCHANGED <<storeVars, runVars, loopVars, memoVars, settings>>

NextRun ==
  \/ StepSampledTimeInstants
  \/ StepSampledPositionsForDrones
  \/ StepSampledVelocitiesForDrones
  \/ StepDerivedSequences
  \/ BeginFrames
  \/ CopyPosition
  \/ ClosestPairOfFrame
  \/ FinishFrames

SpecRun == InitRun /\ [][NextRun]_vars

----------------------------------------------------------------------------
(* Properties of one analysis run *)

GridComputed == pc # "start"
DerivedComputed == pc \in {"derived", "frames", "done"}

NonDecreasing(s) == \A i \in 1..(Len(s) - 1) : s[i] <= s[i + 1]

\* ceil(duration * SAMPLES_PER_SECOND), as the least integer not below the
\* product
CeilOfSamples(d) ==
  CHOOSE n \in (-(MaxNegDuration + 1))..(MaxDuration + 1) :
    /\ n * TicksPerSecond >= d * SAMPLES_PER_SECOND
    /\ (n - 1) * TicksPerSecond < d * SAMPLES_PER_SECOND

\* C1 as stated: for every duration >= 0 the sample grid is non-decreasing,
\* its first element is 0 when the grid is non-empty, its last element
\* equals duration, and its length is ceil(duration * SAMPLES_PER_SECOND) or
\* that plus one.
C1_GridEndsAtDuration ==
  (GridComputed /\ duration >= 0) =>
    /\ NonDecreasing(samples)
    /\ (Len(samples) > 0 => samples[1] = 0)
    /\ Len(samples) > 0
    /\ samples[Len(samples)] = duration
    /\ Len(samples) \in {CeilOfSamples(duration), CeilOfSamples(duration) + 1}

\* C1 amended: for every duration >= 0 the sample grid is non-decreasing,
\* its first element is 0 and its last element equals duration when the grid
\* is non-empty, the grid is empty exactly when duration = 0, and its length
\* is ceil(duration * SAMPLES_PER_SECOND) or that plus one.
C1_GridShape ==
  (GridComputed /\ duration >= 0) =>
    /\ NonDecreasing(samples)
    /\ (Len(samples) > 0 => samples[1] = 0)
    /\ (Len(samples) > 0 => samples[Len(samples)] = duration)
    /\ (Len(samples) = 0 <=> duration = 0)
    /\ Len(samples) \in {CeilOfSamples(duration), CeilOfSamples(duration) + 1}

\* a grid whose last interval is shorter than the sampling period
C1_Witness ==
  /\ GridComputed
  /\ duration > 0
  /\ Len(samples) >= 3
  /\ samples[Len(samples)] = duration
  /\ samples[Len(samples)] - samples[Len(samples) - 1] < Resolution

\* C6: a negative duration is rejected before grid generation: no sample
\* grid is produced for it and no trajectory is evaluated at a time outside
\* [0, duration].
C6_NegativeDurationRejected ==
  duration < 0 =>
    /\ ~GridComputed
    /\ \A d \in 1..Len(positionsByDrones) :
         \A i \in 1..Len(positionsByDrones[d]) :
           positionsByDrones[d][i].t \in 0..duration

PositionOf(d, f) ==
  [x |-> players.items[d].p0.x + players.items[d].v.x * samples[f],
   y |-> players.items[d].p0.y + players.items[d].v.y * samples[f],
   z |-> players.items[d].p0.z + players.items[d].v.z * samples[f]]

PairDistances(f) ==
  {SquaredDistance(PositionOf(ij[1], f), PositionOf(ij[2], f)) :
     ij \in IndexPairs(Len(players.items))}

Minimum(S) == CHOOSE m \in S : \A x \in S : m <= x

\* C2: for every frame with two or more drones the reported distance is the
\* minimum over all pairs of distinct drones of the 3D Euclidean distance of
\* their positions in that frame.
C2_DistanceIsGlobalMinimum ==
  (pc \in {"frames", "done"} /\ Len(players.items) >= 2) =>
    \A f \in 1..frameIndex :
      /\ result[f].type = "number"
      /\ result[f].squared = Minimum(PairDistances(f))

\* three drones, a frame whose closest pair is not the first two drones and a
\* frame with coincident drones
C2_Witness ==
  /\ pc = "done"
  /\ Len(players.items) = 3
  /\ \E f \in 1..Len(result) :
       /\ result[f].squared > 0
       /\ result[f].squared < SquaredDistance(PositionOf(1, f), PositionOf(2, f))
  /\ \E f \in 1..Len(result) : result[f].squared = 0

\* C3: one entry per sampled time instant; an entry is null iff the frame has
\* fewer than two drones, and with two or more drones it is a number.
C3_NullIffFewerThanTwoDrones ==
  pc = "done" =>
    /\ Len(result) = Len(samples)
    /\ \A f \in 1..Len(result) :
         /\ result[f] = Null <=> Len(players.items) < 2
         /\ Len(players.items) >= 2 => result[f].type = "number"

C3_Witness ==
  /\ pc = "done"
  /\ Len(players.items) = 1
  /\ Len(result) >= 2
  /\ \A f \in 1..Len(result) : result[f] = Null

\* the stepped loop computes the result function
LoopComputesResultFunction ==
  pc = "done" =>
    result = getNearestNeighborDistancesForFrames(positionsByDrones, samples)

\* C10: no array slot written while processing one frame index is read or
\* written while processing another frame index.
C10_NoSlotSharedAcrossFrames ==
  \A a \in accesses : \A b \in accesses :
    (a.object = b.object /\ a.slot = b.slot /\ a.mode = "write")
      => a.frame = b.frame

----------------------------------------------------------------------------
(* Validation settings.  An object is a function from its own keys to      *)
(* values.                                                                 *)

CanonicalKeys == {"maxAltitude", "maxVelocityXY", "maxVelocityZ", "minDistance"}
LegacyKeys == {"max_altitude", "max_velocity_xy", "max_velocity_z", "min_distance"}

DEFAULT_VALIDATION_SETTINGS ==
  [outdoor |-> [maxAltitude |-> Num(150), maxVelocityXY |-> Num(10),
                maxVelocityZ |-> Num(2), minDistance |-> Num(3)],
   indoor |-> [maxAltitude |-> Num(15), maxVelocityXY |-> Num(4),
               maxVelocityZ |-> Num(1), minDistance |-> Num(1)]]

\* obj[key] / obj.key
Property(obj, key) == IF key \in DOMAIN obj THEN obj[key] ELSE Undefined

\* Object.assign(target, source); a null or undefined source is skipped
ObjectAssign(target, source) ==
  IF source.type = "object"
  THEN [k \in DOMAIN target \cup DOMAIN source.props |->
          IF k \in DOMAIN source.props THEN source.props[k] ELSE target[k]]
  ELSE target

\* target with target[key] = value for each key of the function `values`
Assigned(target, values) ==
  [k \in DOMAIN target \cup DOMAIN values |->
     IF k \in DOMAIN values THEN values[k] ELSE target[k]]

DefaultsFor_indoorFallback(type) ==
  IF type \in DOMAIN DEFAULT_VALIDATION_SETTINGS
  THEN DEFAULT_VALIDATION_SETTINGS[type]
  ELSE DEFAULT_VALIDATION_SETTINGS.indoor

\* { ...(DEFAULT_VALIDATION_SETTINGS[type] || DEFAULT_VALIDATION_SETTINGS.outdoor) }
DefaultsFor(type) ==
  IF type \in DOMAIN DEFAULT_VALIDATION_SETTINGS
  THEN DEFAULT_VALIDATION_SETTINGS[type]
  ELSE DEFAULT_VALIDATION_SETTINGS.outdoor

LegacyValues(val) ==
  [maxAltitude |-> Property(val.props, "max_altitude"),
   maxVelocityXY |-> Property(val.props, "max_velocity_xy"),
   maxVelocityZ |-> Property(val.props, "max_velocity_z"),
   minDistance |-> Property(val.props, "min_distance")]

getValidationSettings_mixedShapes(val, type) ==
  IF Truthy(val) /\ Property(val.props, "max_altitude") # Undefined
  THEN ObjectAssign(Assigned(DefaultsFor(type), LegacyValues(val)), val)
  ELSE ObjectAssign(DefaultsFor(type), val)

\* the result function of getValidationSettings
getValidationSettings(val, type) ==
  IF Truthy(val) /\ Property(val.props, "max_altitude") # Undefined
  THEN Assigned(DefaultsFor(type), LegacyValues(val))
  ELSE ObjectAssign(DefaultsFor(type), val)

----------------------------------------------------------------------------
(* createSelector: each selector keeps the arguments and the result of its *)
(* last computation (a cache of size one) and compares the results of its  *)
(* input selectors with === .  An array or object is a heap value          *)
(* [type, ref, items / props]; ref is its identity.  (The selector also    *)
(* skips its input selectors when it is called again with the very same    *)
(* state object; the store's state is immutable, so the inputs are then    *)
(* unchanged and the call is the cache hit modelled here.)                 *)

SelectorNames ==
  {"getValidationSettings", "getSampledTimeInstants",
   "getSampledPositionsForDrones", "getNearestNeighborDistancesForFrames"}

EmptyMemo == [s \in SelectorNames |-> [lastArgs |-> Null, lastResult |-> Null]]

IsHeapValue(v) == v.type \in {"array", "object"}

\* a === b
StrictEquals(a, b) ==
  /\ a.type = b.type
  /\ IF IsHeapValue(a) THEN a.ref = b.ref ELSE a = b

ArgsEqual(lastArgs, args) ==
  /\ lastArgs.type = "args"
  /\ Len(lastArgs.items) = Len(args)
  /\ \A i \in 1..Len(args) : StrictEquals(lastArgs.items[i], args[i])

\* the identities held by a value, in order
RefList(v) ==
  IF v.type = "args"
  THEN [i \in 1..Len(SelectSeq(v.items, IsHeapValue)) |->
          SelectSeq(v.items, IsHeapValue)[i].ref]
  ELSE IF IsHeapValue(v) THEN <<v.ref>> ELSE <<>>

RECURSIVE Flatten(_)
Flatten(seqs) ==
  IF Len(seqs) = 0 THEN <<>> ELSE Head(seqs) \o Flatten(Tail(seqs))

MemoOrder ==
  <<"getValidationSettings", "getSampledTimeInstants",
    "getSampledPositionsForDrones", "getNearestNeighborDistancesForFrames">>

\* every identity in use: the store, the caches, then the log of the step
AllRefs(pl, val, m, log) ==
  RefList(pl) \o RefList(val)
    \o Flatten([i \in 1..Len(MemoOrder) |->
                  RefList(m[MemoOrder[i]].lastArgs)
                    \o RefList(m[MemoOrder[i]].lastResult)])
    \o Flatten([k \in 1..Len(log) |->
                  RefList(log[k].previous.lastArgs)
                    \o RefList(log[k].previous.lastResult)
                    \o RefList(log[k].returned)])

SeqRange(seq) == {seq[i] : i \in 1..Len(seq)}

\* identity of a newly allocated array or object: one that is not in use
FreshRef(st) ==
  LET used == SeqRange(AllRefs(players, validation, st.memo, st.log))
  IN  CHOOSE n \in 0..Cardinality(used) : n \notin used

(* Identities only matter up to renaming.  Every step leaves them numbered *)
(* in the order of AllRefs, so that two states that differ only in the     *)
(* numbering of their arrays are one state.                                *)

Rank(seq, r) ==
  LET first == CHOOSE i \in 1..Len(seq) :
                 seq[i] = r /\ \A j \in 1..(i - 1) : seq[j] # r
  IN  Cardinality({seq[j] : j \in 1..(first - 1)})

Renamed(v, seq) ==
  IF v.type = "args"
  THEN [v EXCEPT !.items =
          [i \in 1..Len(v.items) |->
             IF IsHeapValue(v.items[i])
             THEN [v.items[i] EXCEPT !.ref = Rank(seq, v.items[i].ref)]
             ELSE v.items[i]]]
  ELSE IF IsHeapValue(v) THEN [v EXCEPT !.ref = Rank(seq, v.ref)] ELSE v

RenamedEntry(e, seq) ==
  [lastArgs |-> Renamed(e.lastArgs, seq), lastResult |-> Renamed(e.lastResult, seq)]

RenamedMemo(m, seq) == [s \in DOMAIN m |-> RenamedEntry(m[s], seq)]

RenamedLog(log, seq) ==
  [k \in 1..Len(log) |->
     [log[k] EXCEPT !.previous = RenamedEntry(log[k].previous, seq),
                    !.returned = Renamed(log[k].returned, seq)]]

Last(log) == log[Len(log)]

\* One call of the memoized result function of selector `name` with the
\* values `args` of its input selectors; `computed` is what the result
\* function returns for them.  st = [memo, log].
Invoke(st, name, args, computed) ==
  LET prev == st.memo[name]
      hit == ArgsEqual(prev.lastArgs, args)
      next == IF hit THEN prev
              ELSE [lastArgs |-> [type |-> "args", items |-> args],
                    lastResult |-> [computed EXCEPT !.ref = FreshRef(st)]]
  IN  [memo |-> [st.memo EXCEPT ![name] = next],
       log |-> Append(st.log,
                 [selector |-> name, previous |-> prev,
                  returned |-> next.lastResult, recomputed |-> ~hit])]

ArrayOf(items) == [type |-> "array", ref |-> 0, items |-> items]

select_getSampledTimeInstants(st) ==
  Invoke(st, "getSampledTimeInstants", <<Num(duration)>>,
         ArrayOf(getSampledTimeInstants(duration)))

select_getSampledPositionsForDrones_undeclaredInput(st) ==
  LET s1 == select_getSampledTimeInstants(st)
      times == Last(s1.log).returned
  IN  Invoke(s1, "getSampledPositionsForDrones", <<players>>,
             ArrayOf(getSampledPositionsForDrones(players.items, times.items)))

select_getSampledPositionsForDrones(st) ==
  LET s1 == select_getSampledTimeInstants(st)
      times == Last(s1.log).returned
  IN  Invoke(s1, "getSampledPositionsForDrones", <<players, times>>,
             ArrayOf(getSampledPositionsForDrones(players.items, times.items)))

select_getNearestNeighborDistancesForFrames(st) ==
  LET s1 == select_getSampledPositionsForDrones(st)
      positions == Last(s1.log).returned
      s2 == select_getSampledTimeInstants(s1)
      times == Last(s2.log).returned
  IN  Invoke(s2, "getNearestNeighborDistancesForFrames", <<positions, times>>,
             ArrayOf(getNearestNeighborDistancesForFrames(positions.items,
                                                         times.items)))

----------------------------------------------------------------------------
(* The store and the selector calls made on it *)

MaxStoreDrones == 2
MaxStoreDuration == 2

\* the shows loaded into the store: the first n drones of a fleet in which
\* the odd drones move and the even ones hover
FleetPlayer(d) ==
  [p0 |-> [x |-> d % 2, y |-> 0, z |-> d \div 2],
   v |-> IF d % 2 = 1 THEN [x |-> 1, y |-> 1, z |-> -1]
         ELSE [x |-> 0, y |-> 0, z |-> 0]]

StoreTrajectorySets == {[d \in 1..n |-> FleetPlayer(d)] : n \in 0..MaxStoreDrones}
StoreDurations == 0..MaxStoreDuration

Init ==
  /\ duration = 0
  /\ players = [type |-> "array", ref |-> 0, items |-> <<>>]
  /\ validation = Undefined
  /\ environmentType = "outdoor"
  /\ pc = "idle"
  /\ samples = <<>>
  /\ positionsByDrones = <<>>
  /\ velocitiesByDrones = <<>>
  /\ altitudes = <<>>
  /\ horizontalVelocities = <<>>
  /\ verticalVelocities = <<>>
  /\ frameIndex = 0
  /\ droneIndex = 0
  /\ positionsInCurrentFrame = <<>>
  /\ result = <<>>
  /\ accesses = {}
  /\ memo = EmptyMemo
  /\ calls = <<>>
  /\ settings = Undefined

\* a change of the show duration
SetShowDuration ==
  /\ \E d \in StoreDurations : duration' = d
  /\ duration' # duration
  /\ calls' = <<>>
  /\ pc' = "SetShowDuration"
  /\ UNCHANGED <<players, validation, environmentType, runVars, loopVars,
                 memo, settings>>

\* a change of the trajectory set: getTrajectoryPlayers returns a new array
SetTrajectoryPlayers ==
  /\ \E ps \in StoreTrajectorySets :
       LET created == [type |-> "array",
                       ref |-> FreshRef([memo |-> memo, log |-> <<>>]),
                       items |-> ps]
           seq == AllRefs(created, validation, memo, <<>>)
       IN  /\ players' = Renamed(created, seq)
           /\ memo' = RenamedMemo(memo, seq)
  /\ calls' = <<>>
  /\ pc' = "SetTrajectoryPlayers"
  /\ UNCHANGED <<duration, validation, environmentType, runVars, loopVars,
                 settings>>

\* a selector call: the caches and the log after it
Call(st, name) ==
  LET seq == AllRefs(players, validation, st.memo, st.log)
  IN  /\ memo' = RenamedMemo(st.memo, seq)
      /\ calls' = RenamedLog(st.log, seq)
      /\ pc' = name
      /\ UNCHANGED <<storeVars, runVars, loopVars, settings>>

CallSampledTimeInstants ==
  Call(select_getSampledTimeInstants([memo |-> memo, log |-> <<>>]),
       "getSampledTimeInstants")

CallSampledPositionsForDrones ==
  Call(select_getSampledPositionsForDrones([memo |-> memo, log |-> <<>>]),
       "getSampledPositionsForDrones")

CallNearestNeighborDistancesForFrames ==
  Call(select_getNearestNeighborDistancesForFrames([memo |-> memo, log |-> <<>>]),
       "getNearestNeighborDistancesForFrames")

Next ==
  \/ SetShowDuration
  \/ SetTrajectoryPlayers
  \/ CallSampledTimeInstants
  \/ CallSampledPositionsForDrones
  \/ CallNearestNeighborDistancesForFrames

Spec == Init /\ [][Next]_vars

----------------------------------------------------------------------------
(* Memoization *)

T == "getSampledTimeInstants"
P == "getSampledPositionsForDrones"
N == "getNearestNeighborDistancesForFrames"

\* the values of the declared input selectors of a selector, in the state
\* the call leaves
DeclaredInputs(name) ==
  CASE name = T -> <<Num(duration)>>
    [] name = P -> <<players, memo[T].lastResult>>
    [] name = N -> <<memo[P].lastResult, memo[T].lastResult>>

\* what the result function yields for the current duration and trajectories
CurrentItems(name) ==
  LET times == getSampledTimeInstants(duration)
      positions == getSampledPositionsForDrones(players.items, times)
  IN  CASE name = T -> times
        [] name = P -> positions
        [] name = N -> getNearestNeighborDistancesForFrames(positions, times)

\* C9: a memoized selector recomputes only when one of its declared inputs
\* differs (===) from the inputs of its previous computation, returns the
\* cached result when they are unchanged, and what it returns is the result
\* for the inputs of the current call.
C9_MemoizedSelectors ==
  \A k \in 1..Len(calls) :
    calls[k].selector \in {T, P, N} =>
      /\ calls[k].recomputed
           <=> ~ArgsEqual(calls[k].previous.lastArgs,
                          DeclaredInputs(calls[k].selector))
      /\ ~calls[k].recomputed => calls[k].returned = calls[k].previous.lastResult
      /\ calls[k].returned.items = CurrentItems(calls[k].selector)

\* a call of the distances selector after a change of the trajectory set
\* alone: the grid is served from the cache, positions and distances are
\* recomputed
C9_Witness ==
  /\ pc = N
  /\ Len(calls) = 4
  /\ calls[1].selector = T /\ ~calls[1].recomputed
  /\ calls[2].selector = P /\ calls[2].recomputed
  /\ calls[2].previous.lastArgs.type = "args"
  /\ calls[4].selector = N /\ calls[4].recomputed
  /\ calls[4].previous.lastArgs.type = "args"
  /\ Len(calls[4].returned.items) >= 2
  /\ calls[4].returned.items[1].type = "number"

\* a call that is served from the cache
C9_CacheHit ==
  /\ pc = N
  /\ \A k \in 1..Len(calls) : ~calls[k].recomputed
  /\ Len(Last(calls).returned.items) >= 2

----------------------------------------------------------------------------
(* Resolution of the validation settings: the show's raw settings and its  *)
(* environment type are drawn in InitSettings.                             *)

\* the number a show file supplies under each key
SuppliedNumber ==
  [maxAltitude |-> 80, maxVelocityXY |-> 8, maxVelocityZ |-> 4,
   minDistance |-> 6, max_altitude |-> 50, max_velocity_xy |-> 5,
   max_velocity_z |-> 3, min_distance |-> 2]

\* a key is absent, carries null (the unset marker) or carries a number
RawSettings ==
  {[k \in {j \in CanonicalKeys \cup LegacyKeys : shape[j] # "absent"} |->
      IF shape[k] = "null" THEN Null ELSE Num(SuppliedNumber[k])] :
     shape \in [CanonicalKeys \cup LegacyKeys -> {"absent", "null", "number"}]}

ValidationInputs ==
  {Undefined, Null} \cup [type : {"object"}, ref : {1}, props : RawSettings]

EnvironmentTypes == {"outdoor", "indoor", "underwater", "undefined"}

InitSettings ==
  /\ duration = 0
  /\ players = [type |-> "array", ref |-> 0, items |-> <<>>]
  /\ validation \in ValidationInputs
  /\ environmentType \in EnvironmentTypes
  /\ pc = "idle"
  /\ samples = <<>>
  /\ positionsByDrones = <<>>
  /\ velocitiesByDrones = <<>>
  /\ altitudes = <<>>
  /\ horizontalVelocities = <<>>
  /\ verticalVelocities = <<>>
  /\ frameIndex = 0
  /\ droneIndex = 0
  /\ positionsInCurrentFrame = <<>>
  /\ result = <<>>
  /\ accesses = {}
  /\ memo = EmptyMemo
  /\ calls = <<>>
  /\ settings = Undefined

select_getValidationSettings(st) ==
  Invoke(st, "getValidationSettings",
         <<validation, [type |-> "string", value |-> environmentType]>>,
         [type |-> "object", ref |-> 0,
          props |-> getValidationSettings(validation, environmentType)])

CallValidationSettings ==
  LET st == select_getValidationSettings([memo |-> memo, log |-> <<>>])
      seq == AllRefs(players, validation, st.memo, st.log)
  IN  /\ memo' = RenamedMemo(st.memo, seq)
      /\ calls' = RenamedLog(st.log, seq)
      /\ settings' = Renamed(Last(st.log).returned, seq)
      /\ pc' = "getValidationSettings"
      /\ UNCHANGED <<storeVars, runVars, loopVars>>

NextSettings == CallValidationSettings

SpecSettings == InitSettings /\ [][NextSettings]_vars

SettingsResolved == pc = "getValidationSettings"

\* the raw settings carry the legacy altitude key
LegacyShape ==
  validation.type = "object" /\ "max_altitude" \in DOMAIN validation.props

\* the value the honoured shape supplies for a canonical field
SuppliedFor(field) ==
  IF validation.type # "object" THEN Undefined
  ELSE IF LegacyShape THEN LegacyValues(validation)[field]
  ELSE Property(validation.props, field)

\* C4 as stated: each of the four fields of the result holds a number: the
\* supplied value when one is supplied, otherwise the environment default.
C4_AllFieldsPopulated ==
  SettingsResolved =>
    \A field \in CanonicalKeys :
      /\ field \in DOMAIN settings.props
      /\ settings.props[field].type = "number"
      /\ settings.props[field] =
           IF SuppliedFor(field).type = "number" THEN SuppliedFor(field)
           ELSE DefaultsFor(environmentType)[field]

====
